---- MODULE Spec2Model ----
(***************************************************************************)
(* Model of app.py: the tumour growth dashboard.  The module-level code    *)
(* reshapes the wide table (melt + dropna); the Dash callback              *)
(* update_tumour_graph builds one trace per selected mouse, the two chemo  *)
(* windows and the layout.                                                 *)
(*                                                                         *)
(* A cell of the table is a float: NaN (missing) or a number.  The LOWESS  *)
(* fit is a library routine: its x column is the sorted exog, its y column *)
(* is kept as an uninterpreted term over the points it was given, and it   *)
(* may raise.  sort_values is called with the default kind ("quicksort"),  *)
(* which leaves the order of rows with equal keys unspecified.             *)
(***************************************************************************)
EXTENDS Integers, Sequences, FiniteSets, TLC

\* ---- bounds of the model ----
MaxRows == 3
MaxSel == 2

\* ---- input domains ----
NaN == [isna |-> TRUE, v |-> 0]
Num(n) == [isna |-> FALSE, v |-> n]
CurveTypes == {"raw", "smooth"}

\* the columns of the table after the time column
mouse_cols == <<"A", "TP1-PT">>
\* identifiers a client can send: the columns and one that is no column
MouseIds == {"A", "TP1-PT", "ZZ"}

DASHED_MICE == {"TP1-PT", "TP2-PT", "TP3-V", "TP5-V"}
chemo_windows == <<<<37, 57>>, <<65, 85>>>>

VARIABLES df_wide, df, pc, selected_mice, curve_type, result, fig

vars == <<df_wide, df, pc, selected_mice, curve_type, result, fig>>

\* ---- helpers on sequences ----
Range(s) == {s[i] : i \in 1..Len(s)}

SeqsUpTo(S, n) == UNION {[1..k -> S] : k \in 0..n}

Perms(n) == {p \in [1..n -> 1..n] : \A i, j \in 1..n : i # j => p[i] # p[j]}

\* the orderings of up to MaxRows rows, computed once
PermTable == [n \in 0..MaxRows |-> Perms(n)]

\* ---- the wide table ----
Row(t, a, b) == [Time |-> t, cells |-> <<a, b>>]
\* the rows a table is made of: three days, so that the times of a table
\* can be out of order, repeated or all distinct, and a cell missing in
\* either column
WideRows ==
  {Row(7, Num(300), Num(100)), Row(0, Num(100), NaN),
   Row(7, Num(100), Num(300)), Row(14, Num(100), Num(100)),
   Row(0, NaN, Num(300))}
WideTables == UNION {[1..k -> WideRows] : k \in 1..MaxRows}

\* ---- melt and dropna ----
isna(c) == c.isna

melt(w) ==
  LET n == Len(w)
  IN [k \in 1..(Len(mouse_cols) * n) |->
        LET c == ((k - 1) \div n) + 1
            r == ((k - 1) % n) + 1
        IN [idx |-> k - 1, Time |-> w[r].Time, Mouse |-> mouse_cols[c],
            Volume |-> w[r].cells[c]]]

\* mutant: the missing cells are filled with 0 instead of dropped
dropna_fillna(frame) ==
  [k \in 1..Len(frame) |->
     IF isna(frame[k].Volume) THEN [frame[k] EXCEPT !.Volume = Num(0)] ELSE frame[k]]

dropna(frame) == SelectSeq(frame, LAMBDA row : ~isna(row.Volume))

\* ---- per-mouse frame ----
FilterMouse(frame, mouse) == SelectSeq(frame, LAMBDA row : row.Mouse = mouse)

IsSortedByTime(s) == \A i, j \in 1..Len(s) : i < j => s[i].Time <= s[j].Time

\* mutant: the frame is not sorted
sort_values_unsorted(frame) == {frame}

\* sort_values(time_col) with the default kind: every ordering by time is a
\* possible result, the order of equal times is not fixed
sort_values(frame) ==
  {[i \in 1..Len(frame) |-> frame[p[i]]] : p \in
     {q \in PermTable[Len(frame)] :
        IsSortedByTime([i \in 1..Len(frame) |-> frame[q[i]]])}}

Column(frame, col) == [i \in 1..Len(frame) |-> frame[i][col]]

\* ---- sorted copy of a sequence of numbers (np.sort on exog) ----
SortedNums(xs) ==
  LET below(v) == Cardinality({j \in 1..Len(xs) : xs[j] < v})
      upto(v) == Cardinality({j \in 1..Len(xs) : xs[j] <= v})
  IN [i \in 1..Len(xs) |-> CHOOSE v \in Range(xs) : below(v) < i /\ i <= upto(v)]

\* mutant: one fitted row per distinct x
lowess_unique(endog, exog) ==
  LET S == Range(exog)
      xs == [i \in 1..Cardinality(S) |->
               CHOOSE v \in S : Cardinality({u \in S : u < v}) = i - 1]
  IN [x |-> xs,
      y |-> [i \in 1..Len(xs) |->
               [fitted_at |-> i, endog |-> endog, exog |-> exog]]]

\* ---- lowess(endog, exog, frac=0.35): rows of (sorted x, fitted y) ----
lowess(endog, exog) ==
  LET xs == SortedNums(exog)
  IN [x |-> xs,
      y |-> [i \in 1..Len(xs) |->
               [fitted_at |-> i, endog |-> endog, exog |-> exog]]]

\* mutant: the test is inverted
DashStyle_inverted(mouse) == IF mouse \in DASHED_MICE THEN "solid" ELSE "dash"

DashStyle(mouse) == IF mouse \in DASHED_MICE THEN "dash" ELSE "solid"

\* mutant: two points are already smoothed
UseLowess_from2(curve, dff) == curve = "smooth" /\ Len(dff) >= 2

UseLowess(curve, dff) == curve = "smooth" /\ Len(dff) > 2

SmoothTrace(mouse, dff) ==
  LET sm == lowess(Column(dff, "Volume"), Column(dff, "Time"))
  IN [x |-> sm.x, y |-> sm.y, mode |-> "lines",
      name |-> mouse \o " (smoothed)", dash |-> DashStyle(mouse)]

RawTrace(mouse, dff) ==
  [x |-> Column(dff, "Time"), y |-> Column(dff, "Volume"),
   mode |-> "lines+markers", name |-> mouse, dash |-> DashStyle(mouse)]

\* what one pass of the loop body can do for one mouse: add a trace, or
\* raise out of lowess
LoopBody(frame, mouse, curve) ==
  UNION {IF UseLowess(curve, dff)
           THEN {[raised |-> FALSE, trace |-> <<SmoothTrace(mouse, dff)>>],
                 [raised |-> TRUE, trace |-> <<>>]}
           ELSE {[raised |-> FALSE, trace |-> <<RawTrace(mouse, dff)>>]}
         : dff \in sort_values(FilterMouse(frame, mouse))}

\* the for loop: the traces added so far, or the exception that ended it
RECURSIVE Loop(_, _, _)
Loop(frame, mice, curve) ==
  IF mice = <<>>
    THEN {[raised |-> FALSE, data |-> <<>>]}
    ELSE LET rest == Loop(frame, Tail(mice), curve)
         IN UNION {IF b.raised
                     THEN {[raised |-> TRUE, data |-> <<>>]}
                     ELSE {[raised |-> r.raised,
                            data |-> IF r.raised THEN <<>> ELSE b.trace \o r.data]
                           : r \in rest}
                   : b \in LoopBody(frame, Head(mice), curve)}

\* mutant: the band ends where it starts
vrect_x1_is_x0(w) ==
  [x0 |-> w[1], x1 |-> w[1], fillcolor |-> "lightgrey", opacity_pct |-> 50,
   layer |-> "below", line_width |-> 0]

vrect(w) ==
  [x0 |-> w[1], x1 |-> w[2], fillcolor |-> "lightgrey", opacity_pct |-> 50,
   layer |-> "below", line_width |-> 0]

Shapes == [i \in 1..Len(chemo_windows) |-> vrect(chemo_windows[i])]

Layout ==
  [height |-> 800, xaxis_title |-> "Days", yaxis_title |-> "Tumour Volume (mm3)",
   hovermode |-> "x unified", margin |-> [l |-> 50, r |-> 10, t |-> 40, b |-> 40]]

\* the layout of a figure nothing was set on
NoLayout ==
  [height |-> 0, xaxis_title |-> "", yaxis_title |-> "", hovermode |-> "",
   margin |-> [l |-> 0, r |-> 0, t |-> 0, b |-> 0]]

\* go.Figure()
EmptyFigure == [data |-> <<>>, shapes |-> <<>>, layout |-> NoLayout]

\* ---- the value of the mouse-select input ----
\* None, a list of identifiers, or a single string
Selections ==
  {[kind |-> "None", name |-> "", items |-> <<>>]}
    \cup {[kind |-> "list", name |-> "", items |-> s] : s \in SeqsUpTo(MouseIds, MaxSel)}
    \cup {[kind |-> "str", name |-> m, items |-> <<>>] : m \in MouseIds \cup {""}}

\* mutant: only None counts as no selection
Falsy_NoneOnly(sel) == sel.kind = "None"

\* `not selected_mice`: None, the empty list and the empty string
Falsy(sel) ==
  \/ sel.kind = "None"
  \/ sel.kind = "list" /\ sel.items = <<>>
  \/ sel.kind = "str" /\ sel.name = ""

\* mutant: the loop runs over the selection backwards
AsList_reversed(sel) ==
  IF sel.kind = "str"
    THEN <<sel.name>>
    ELSE [i \in 1..Len(sel.items) |-> sel.items[Len(sel.items) + 1 - i]]

\* the list the loop runs over: a single string is wrapped in a list
AsList(sel) == IF sel.kind = "str" THEN <<sel.name>> ELSE sel.items

NoSelection == [kind |-> "None", name |-> "", items |-> <<>>]

Init ==
  /\ df_wide \in WideTables
  /\ df = <<>>
  /\ pc = "load"
  /\ selected_mice = NoSelection
  /\ curve_type = "smooth"
  /\ result = "none"
  /\ fig = EmptyFigure

\* module level: melt, then dropna
Prepare ==
  /\ pc = "load"
  /\ df' = dropna(melt(df_wide))
  /\ pc' = "idle"
  /\ UNCHANGED <<df_wide, selected_mice, curve_type, result, fig>>

\* the callback, empty selection
UpdateEmpty(sel, curve) ==
  /\ pc = "idle"
  /\ Falsy(sel)
  /\ selected_mice' = sel
  /\ curve_type' = curve
  /\ result' = "figure"
  /\ fig' = EmptyFigure
  /\ pc' = "returned"
  /\ UNCHANGED <<df_wide, df>>

\* the callback, the loop runs to its end
UpdateFigure(sel, curve) ==
  /\ pc = "idle"
  /\ ~Falsy(sel)
  /\ \E r \in Loop(df, AsList(sel), curve) :
       /\ ~r.raised
       /\ fig' = [data |-> r.data, shapes |-> Shapes, layout |-> Layout]
  /\ selected_mice' = sel
  /\ curve_type' = curve
  /\ result' = "figure"
  /\ pc' = "returned"
  /\ UNCHANGED <<df_wide, df>>

\* the callback, lowess raises: nothing is returned
UpdateRaises(sel, curve) ==
  /\ pc = "idle"
  /\ ~Falsy(sel)
  /\ \E r \in Loop(df, AsList(sel), curve) : r.raised
  /\ selected_mice' = sel
  /\ curve_type' = curve
  /\ result' = "exception"
  /\ fig' = EmptyFigure
  /\ pc' = "returned"
  /\ UNCHANGED <<df_wide, df>>

update_tumour_graph(sel, curve) ==
  \/ UpdateEmpty(sel, curve)
  \/ UpdateFigure(sel, curve)
  \/ UpdateRaises(sel, curve)

\* the request is over: the arguments and the figure of the call are gone,
\* nothing of it is kept for the next call
RequestDone ==
  /\ pc = "returned"
  /\ pc' = "idle"
  /\ selected_mice' = NoSelection
  /\ curve_type' = "smooth"
  /\ result' = "none"
  /\ fig' = EmptyFigure
  /\ UNCHANGED <<df_wide, df>>

Next ==
  \/ Prepare
  \/ \E sel \in Selections, curve \in CurveTypes : update_tumour_graph(sel, curve)
  \/ RequestDone

Spec == Init /\ [][Next]_vars

\* ======================= properties =======================

\* the identifiers of the request just answered, in the order requested
Requested ==
  IF selected_mice.kind = "str" THEN <<selected_mice.name>> ELSE selected_mice.items

\* a Chart Description was returned for the request just answered
Returned == pc = "returned" /\ result = "figure"

\* the selection names at least one subject
NonEmptySelection ==
  \/ selected_mice.kind = "list" /\ selected_mice.items # <<>>
  \/ selected_mice.kind = "str" /\ selected_mice.name # ""

\* None or the empty list
EmptySelection ==
  \/ selected_mice.kind = "None"
  \/ selected_mice.kind = "list" /\ selected_mice.items = <<>>

\* the subjects of the loaded table
Registry == Range(mouse_cols)

\* the measurements of one subject, in the order of the Measurement sequence
Measurements(m) == FilterMouse(df, m)

Points(frame) == [i \in 1..Len(frame) |-> <<frame[i].Time, frame[i].Volume>>]

TracePoints(t) == [i \in 1..Len(t.x) |-> <<t.x[i], t.y[i]>>]

Occurrences(s, e) == Cardinality({i \in 1..Len(s) : s[i] = e})

SameBag(s, t) ==
  /\ Len(s) = Len(t)
  /\ \A e \in Range(s) \cup Range(t) : Occurrences(s, e) = Occurrences(t, e)

NonDecreasing(xs) == \A i, j \in 1..Len(xs) : i < j => xs[i] <= xs[j]

StrictlyAscending(xs) == \A i, j \in 1..Len(xs) : i < j => xs[i] < xs[j]

Bands == [i \in 1..Len(fig.shapes) |-> <<fig.shapes[i].x0, fig.shapes[i].x1>>]

\* C1: a request whose selection holds an identifier that is not in the
\* Subject Registry is rejected with InvalidSelection and returns no chart
C1_UnknownRejected ==
  (pc = "returned" /\ \E i \in 1..Len(Requested) : Requested[i] \notin Registry)
    => (result = "InvalidSelection" /\ fig = EmptyFigure)

\* C2: a request with an empty selection (None or an empty list), in either
\* curve mode, returns a chart with zero series and zero bands
C2_EmptySelectionEmptyChart ==
  (pc = "returned" /\ EmptySelection)
    => (result = "figure" /\ Len(fig.data) = 0 /\ Len(fig.shapes) = 0)

C2_Witness ==
  /\ pc = "returned"
  /\ selected_mice.kind = "list"
  /\ selected_mice.items = <<>>
  /\ curve_type = "raw"
  /\ result = "figure"

\* C3: the bands of the chart returned for a non-empty selection are exactly
\* (37,57), (65,85) in that order, whatever the selection and the curve mode
C3_BandsFixed ==
  (Returned /\ NonEmptySelection) => Bands = <<<<37, 57>>, <<65, 85>>>>

C3_Witness ==
  /\ Returned
  /\ Requested = <<"TP1-PT", "A">>
  /\ curve_type = "smooth"
  /\ Len(fig.shapes) = 2

\* C4: the reshaped table holds exactly one entry (time, subject, value) for
\* each (row, subject) whose cell is not missing, none for a missing cell,
\* and no entry carries a value that is not the cell's
C4_ReshapeExact ==
  pc = "idle" =>
    LET n == Len(df_wide)
        at(r, c) == {k \in 1..Len(df) : df[k].idx = (c - 1) * n + (r - 1)}
    IN /\ \A r \in 1..n, c \in 1..Len(mouse_cols) :
            IF df_wide[r].cells[c].isna
              THEN at(r, c) = {}
              ELSE /\ Cardinality(at(r, c)) = 1
                   /\ \A k \in at(r, c) :
                        /\ df[k].Time = df_wide[r].Time
                        /\ df[k].Mouse = mouse_cols[c]
                        /\ df[k].Volume = df_wide[r].cells[c]
       /\ \A k \in 1..Len(df) :
            /\ ~df[k].Volume.isna
            /\ \E r \in 1..n, c \in 1..Len(mouse_cols) : k \in at(r, c)

C4_Witness ==
  /\ pc = "idle"
  /\ Len(df_wide) = 3
  /\ Len(df) = 4
  /\ \E r \in 1..Len(df_wide) : df_wide[r].cells[1].isna

\* C5: in smoothed mode the series of a subject with at most 2 measurements
\* is a series raw mode produces for it: the sorted (time, value) points,
\* lines+markers, the bare subject name as label
C5_SmallSubjectsAreRaw ==
  (Returned /\ NonEmptySelection /\ curve_type = "smooth") =>
    \A i \in 1..Len(Requested) :
      Len(Measurements(Requested[i])) <= 2 =>
        /\ i <= Len(fig.data)
        /\ fig.data[i] \in
             {RawTrace(Requested[i], dff) : dff \in sort_values(Measurements(Requested[i]))}

C5_Witness ==
  /\ Returned
  /\ curve_type = "smooth"
  /\ Requested = <<"A">>
  /\ Len(Measurements("A")) = 2
  /\ fig.data[1].name = "A"

\* C6 as stated: the smoothed series of a subject with n > 2 measurements has
\* n points with distinct ascending x, the distinct sorted times of the input
C6_DistinctX ==
  (Returned /\ curve_type = "smooth") =>
    \A i \in 1..Len(Requested) :
      LET meas == Measurements(Requested[i]) IN
      Len(meas) > 2 =>
        /\ Len(fig.data[i].x) = Len(meas)
        /\ StrictlyAscending(fig.data[i].x)
        /\ Range(fig.data[i].x) = {meas[k].Time : k \in 1..Len(meas)}

\* C6 amended: the smoothed series of a subject with n > 2 measurements has
\* n points in non-decreasing x, and its x values are the sorted times of
\* the input, a repeated time appearing once per measurement
C6_SameCardinalitySortedX ==
  (Returned /\ curve_type = "smooth") =>
    \A i \in 1..Len(Requested) :
      LET meas == Measurements(Requested[i]) IN
      Len(meas) > 2 =>
        /\ fig.data[i].mode = "lines"
        /\ Len(fig.data[i].x) = Len(meas)
        /\ Len(fig.data[i].y) = Len(meas)
        /\ NonDecreasing(fig.data[i].x)
        /\ SameBag(fig.data[i].x, Column(meas, "Time"))

C6_Witness ==
  /\ Returned
  /\ curve_type = "smooth"
  /\ Requested = <<"A">>
  /\ Len(Measurements("A")) = 3
  /\ \E j, k \in 1..3 : j # k /\ Measurements("A")[j].Time = Measurements("A")[k].Time
  /\ Len(fig.data[1].x) = 3

C8_OneSeriesPerSubjectInOrder ==
  (Returned /\ NonEmptySelection /\ Range(Requested) \subseteq Registry) =>
    /\ Len(fig.data) = Len(Requested)
    /\ \A i \in 1..Len(Requested) :
         /\ fig.data[i].name \in {Requested[i], Requested[i] \o " (smoothed)"}
         /\ Len(fig.data[i].x) = Len(Measurements(Requested[i]))

C8_Witness ==
  /\ Returned
  /\ Requested = <<"TP1-PT", "A">>
  /\ Len(fig.data) = 2
  /\ Len(Measurements("A")) > 0
  /\ Len(Measurements("TP1-PT")) > 0

\* the measurements of a subject sorted by time, equal times in source order
StableSorted(m) ==
  CHOOSE dff \in sort_values(Measurements(m)) :
    \A j, k \in 1..Len(dff) :
      (j < k /\ dff[j].Time = dff[k].Time) => dff[j].idx < dff[k].idx

\* C9 as stated: the points of every series are non-decreasing in x, and
\* points of equal time keep the order they had in the Measurement sequence
C9_StableSort ==
  Returned =>
    \A i \in 1..Len(fig.data) :
      /\ NonDecreasing(fig.data[i].x)
      /\ fig.data[i].mode = "lines+markers" =>
           TracePoints(fig.data[i]) = Points(StableSorted(Requested[i]))

\* C9 amended: the points of every series are non-decreasing in x, and the
\* points of a raw series are the subject's measurements, each once; the
\* order of points of equal time is not fixed
C9_SortedByTime ==
  Returned =>
    \A i \in 1..Len(fig.data) :
      /\ NonDecreasing(fig.data[i].x)
      /\ fig.data[i].mode = "lines+markers" =>
           SameBag(TracePoints(fig.data[i]), Points(Measurements(Requested[i])))

C9_Witness ==
  /\ Returned
  /\ curve_type = "raw"
  /\ Requested = <<"A">>
  /\ Len(Measurements("A")) = 3
  /\ ~NonDecreasing(Column(Measurements("A"), "Time"))
  /\ \E j, k \in 1..3 : j # k /\ Measurements("A")[j].Time = Measurements("A")[k].Time
  /\ Len(fig.data[1].x) = 3

\* C10: in every chart returned, in either curve mode, a series is dashed
\* exactly when its subject is one of TP1-PT, TP2-PT, TP3-V, TP5-V, and
\* solid otherwise, subjects that are no column included
C10_DashFixed ==
  Returned =>
    \A i \in 1..Len(fig.data) :
      fig.data[i].dash =
        IF Requested[i] \in {"TP1-PT", "TP2-PT", "TP3-V", "TP5-V"}
          THEN "dash" ELSE "solid"

C10_Witness ==
  /\ Returned
  /\ Requested = <<"TP1-PT", "ZZ">>
  /\ curve_type = "smooth"
  /\ fig.data[1].dash = "dash"
  /\ fig.data[2].dash = "solid"

====
